---- MODULE Spec2Model ----
(***************************************************************************)
(* Stylo: the tournament phase and bracket engine of stylo_bot.py.         *)
(*                                                                         *)
(* The persisted state is the sqlite tables event, entrant, match and     *)
(* voter of one guild.  Every handler runs on one asyncio event loop, so   *)
(* the code between two awaits is one atomic step; a handler that awaits   *)
(* (a chat-platform call) is suspended there and any other handler may    *)
(* run before it resumes.  The resolvers (the scheduler tick and the       *)
(* /stylo_finish_round_now command) keep the rows they read in local      *)
(* variables across their awaits; res[p] holds those locals.               *)
(***************************************************************************)
EXTENDS Integers, Sequences, FiniteSets, TLC

\* ------------------------------------------------------------------ bounds
MaxEntrants == 4        \* entrants joined when the entry deadline is reached
MaxVoters == 2          \* users who press vote buttons
MaxNow == 2             \* the clock runs 0..MaxNow
VoteSec == 1            \* vote window per round, in clock units
BracketEntrants == 5    \* entrants of the forced-finish bracket runs
RaceEntrants == 4       \* entrants of the runs with two admins
BracketRounds == 1      \* rounds in which the bracket runs force a finish
EntrySec == 1           \* entry window of a started tournament, in clock units
PickEntrants == 5       \* entrants of the runs that pick a wildcard opponent
WildFinishes == 2       \* forced finishes of the first admin in the wildcard runs
JoinedEntrants == 3     \* entrants of the runs in which some joined without an image
MaxUsers == 3           \* members who may join in the runs with an open entry window
MaxNames == 2           \* display names a member may submit
MaxGuilds == 3          \* guilds with a tournament in the runs of a tick over several guilds
LateEntrants == 4       \* entrants of the runs with an upload during voting; the last joined without image
LateFinishes == 3       \* forced finishes in the runs with an upload during voting
TimeEntrants == 4       \* entrants of the runs in which the round time is changed
MaxMinutes == 1         \* largest value given to /stylo_set_round_time_left

NULL == 0               \* SQL NULL / Python None (row ids start at 1)
ANY == -1               \* a command the admin may issue any number of times

VARIABLES
    now,          \* datetime.now(timezone.utc)
    event,        \* the guild's event row
    entrant,      \* entrant rows
    match,        \* match rows
    match_seq,    \* AUTOINCREMENT counter of match.id
    voter,        \* voter rows
    res,          \* locals of each running resolver
    champions,    \* champion announcements sent so far
    cmds,         \* admin commands still to be issued in this run
    events,       \* the event rows of all guilds, where a run has several
    tick          \* locals of a scheduler tick that loops over those rows

vars == <<now, event, entrant, match, match_seq, voter, res, champions, cmds,
          events, tick>>

\* What the handlers of one guild's tournament leave alone
multi == <<events, tick>>

IdleTick == [pc |-> "idle", now |-> 0, todo |-> <<>>, raised |-> FALSE]

Procs == {"sched", "fin", "fin2"}      \* the scheduler tick and two admins' commands
Sides == {"L", "R"}
Voters == 1..MaxVoters

\* ----------------------------------------------------------------- helpers
Max(S) == CHOOSE x \in S : \A y \in S : y <= x
Min(S) == CHOOSE x \in S : \A y \in S : x <= y
SeqToSet(s) == {s[i] : i \in 1..Len(s)}
Perms(n) == {f \in [1..n -> 1..n] : \A i, j \in 1..n : f[i] = f[j] => i = j}

\* cur.fetchall() of a SELECT without ORDER BY: rows in rowid order
RECURSIVE RowsById(_)
RowsById(S) ==
    IF S = {} THEN <<>>
    ELSE LET m == CHOOSE x \in S : \A y \in S : x.id <= y.id
         IN  <<m>> \o RowsById(S \ {m})

\* INSERT INTO match(guild_id, round_index, left_id, right_id, end_utc):
\* votes default to 0, winner_id to NULL.  wild records which INSERT made
\* the row (TRUE for the two special-match INSERTs); the table has no such
\* column and no code reads it.
NewMatch(id, round, left, right, end, wild) ==
    [id |-> id, round_index |-> round, left_id |-> left, right_id |-> right,
     end_utc |-> end, left_votes |-> 0, right_votes |-> 0, winner_id |-> NULL,
     wild |-> wild]

RoundRows(M, round) == {m \in M : m.round_index = round}

IdleRes ==
    [pc |-> "idle", now |-> 0, round_index |-> 0, matches |-> <<>>,
     any_revote |-> FALSE, winners |-> <<>>, leftover_ids |-> {}]

\* ---------------------------------------------------------------- the vote
\* The duplicate press is not refused (no unique key on voter)
VoteOutcome_NoUniqueKey(mid, uid) ==
    IF ~\E m \in match : m.id = mid THEN "not_found"
    ELSE LET m == CHOOSE x \in match : x.id = mid
         IN  IF now >= m.end_utc THEN "ended" ELSE "accepted"

\* MatchView._vote: the outcome of a press of a vote button
VoteOutcome(mid, uid) ==
    IF ~\E m \in match : m.id = mid THEN "not_found"
    ELSE LET m == CHOOSE x \in match : x.id = mid
         IN  IF now >= m.end_utc THEN "ended"
             ELSE IF \E v \in voter : v.match_id = mid /\ v.user_id = uid
                  THEN "already_voted"
                  ELSE "accepted"

\* The press is counted and the voter is not recorded
MatchView_vote_CountOnly(mid, uid, side) ==
    /\ VoteOutcome(mid, uid) = "accepted"
    /\ voter' = voter
    /\ match' = {IF m.id # mid THEN m
                 ELSE IF side = "L" THEN [m EXCEPT !.left_votes = @ + 1]
                 ELSE [m EXCEPT !.right_votes = @ + 1] : m \in match}
    /\ UNCHANGED <<now, event, entrant, match_seq, res, champions, cmds>>
    /\ UNCHANGED multi

MatchView_vote(mid, uid, side) ==
    /\ VoteOutcome(mid, uid) = "accepted"
    /\ voter' = voter \cup {[match_id |-> mid, user_id |-> uid, side |-> side]}
    /\ match' = {IF m.id # mid THEN m
                 ELSE IF side = "L" THEN [m EXCEPT !.left_votes = @ + 1]
                 ELSE [m EXCEPT !.right_votes = @ + 1] : m \in match}
    /\ UNCHANGED <<now, event, entrant, match_seq, res, champions, cmds>>
    /\ UNCHANGED multi

\* ------------------------------------------------------- match resolution
\* The tie reset leaves the voter rows of the match in place
ResolveMatch_KeepsVoters(M, V, row, nowp) ==
    IF row.left_votes = row.right_votes
    THEN [match |-> {IF m.id # row.id THEN m
                     ELSE [m EXCEPT !.left_votes = 0, !.right_votes = 0,
                                    !.end_utc = nowp + VoteSec,
                                    !.winner_id = NULL] : m \in M},
          voter |-> V,
          tie   |-> TRUE]
    ELSE [match |-> {IF m.id # row.id THEN m
                     ELSE [m EXCEPT !.winner_id =
                                        IF row.left_votes > row.right_votes
                                        THEN row.left_id ELSE row.right_id,
                                    !.end_utc = nowp] : m \in M},
          voter |-> V,
          tie   |-> FALSE]

\* One iteration of the resolver's "for m in matches" loop, up to its commit.
\* row is the row as the resolver read it; M and V are the tables now.
ResolveMatch(M, V, row, nowp) ==
    IF row.left_votes = row.right_votes
    THEN [match |-> {IF m.id # row.id THEN m
                     ELSE [m EXCEPT !.left_votes = 0, !.right_votes = 0,
                                    !.end_utc = nowp + VoteSec,
                                    !.winner_id = NULL] : m \in M},
          voter |-> {v \in V : v.match_id # row.id},
          tie   |-> TRUE]
    ELSE [match |-> {IF m.id # row.id THEN m
                     ELSE [m EXCEPT !.winner_id =
                                        IF row.left_votes > row.right_votes
                                        THEN row.left_id ELSE row.right_id,
                                    !.end_utc = nowp] : m \in M},
          voter |-> V,
          tie   |-> FALSE]

\* What a resolver keeps of a match row it has read
Snapshot(m) ==
    [id |-> m.id, left_id |-> m.left_id, right_id |-> m.right_id,
     left_votes |-> m.left_votes, right_votes |-> m.right_votes]

RECURSIVE Snapshots(_)
Snapshots(rows) ==
    IF rows = <<>> THEN <<>> ELSE <<Snapshot(Head(rows))>> \o Snapshots(Tail(rows))

\* The resolver reads the undecided matches of the event's round and, with no
\* await in between, resolves the first of them.
ReadRound(p, nowp) ==
    LET rows == Snapshots(RowsById({m \in RoundRows(match, event.round_index) :
                                       m.winner_id = NULL}))
    IN  IF rows = <<>>
        THEN /\ res' = [res EXCEPT ![p] = [IdleRes EXCEPT
                            !.pc = "after", !.now = nowp,
                            !.round_index = event.round_index]]
             /\ UNCHANGED <<match, voter>>
        ELSE LET r == ResolveMatch(match, voter, rows[1], nowp)
             IN  /\ match' = r.match
                 /\ voter' = r.voter
                 /\ res' = [res EXCEPT ![p] = [IdleRes EXCEPT
                                !.pc = IF Len(rows) > 1 THEN "loop" ELSE "after",
                                !.now = nowp,
                                !.round_index = event.round_index,
                                !.matches = Tail(rows),
                                !.any_revote = r.tie]]

\* /stylo_finish_round_now up to the first await of its loop
stylo_finish_round_now(p) ==
    /\ cmds[p] # 0
    /\ res[p].pc = "idle"
    /\ event.state = "voting"
    /\ ReadRound(p, now)
    /\ cmds' = [cmds EXCEPT ![p] = IF @ = ANY THEN ANY ELSE @ - 1]
    /\ UNCHANGED <<now, event, entrant, match_seq, champions>>
    /\ UNCHANGED multi

\* The loop resumes after the awaits of the previous match (message edit,
\* result post) and resolves the next row of its list, as it was read.
ResolveNext(p) ==
    /\ res[p].pc = "loop"
    /\ LET r == ResolveMatch(match, voter, Head(res[p].matches), res[p].now)
       IN  /\ match' = r.match
           /\ voter' = r.voter
           /\ res' = [res EXCEPT ![p].pc = IF Len(res[p].matches) > 1
                                           THEN "loop" ELSE "after",
                                 ![p].matches = Tail(@),
                                 ![p].any_revote = @ \/ r.tie]
    /\ UNCHANGED <<now, event, entrant, match_seq, champions, cmds>>
    /\ UNCHANGED multi

\* "if any_revote": extend the round to the latest match deadline and stop
ExtendRound(p) ==
    /\ res[p].pc = "after"
    /\ res[p].any_revote
    /\ LET ends == {m.end_utc : m \in RoundRows(match, res[p].round_index)}
       IN  event' = IF ends # {} /\ event.state # "none"
                    THEN [event EXCEPT !.entry_end_utc = Max(ends),
                                       !.state = "voting"]
                    ELSE event
    /\ res' = [res EXCEPT ![p] = IdleRes]
    /\ UNCHANGED <<now, entrant, match, match_seq, voter, champions, cmds>>
    /\ UNCHANGED multi

\* ---------------------------------------------------- advance_to_next_round
LoserId(m) == IF m.winner_id = m.left_id THEN m.right_id ELSE m.left_id
LoserVotes(m) == IF m.winner_id = m.left_id THEN m.right_votes ELSE m.left_votes

\* losers_with_votes: (loser_id, losing_vote_count) of the decided rows
LosersWithVotes(rows) ==
    {<<LoserId(m), LoserVotes(m)>> : m \in {x \in rows : x.winner_id # NULL}}

\* list.sort(key=lambda t: (t[1], -t[0]), reverse=True)[0][0]
First(S) ==
    (CHOOSE t \in S : \A u \in S : u[2] < t[2] \/ (u[2] = t[2] /\ t[1] <= u[1]))[1]

pick_leftover_opponent(rows, losers_with_votes) ==
    LET decided == {m \in rows : m.winner_id # NULL}
        losers_totals == {<<LoserId(m), m.left_votes + m.right_votes>> : m \in decided}
        losers_all == {LoserId(m) : m \in decided}
    IN  IF losers_with_votes # {} THEN First(losers_with_votes)
        ELSE IF losers_totals # {} THEN First(losers_totals)
        ELSE IF losers_all # {} THEN Min(losers_all)
        ELSE NULL

\* winner_id of the round's rows, in row order, NULLs skipped
RECURSIVE WinnerList(_)
WinnerList(rows) ==
    IF rows = <<>> THEN <<>>
    ELSE (IF Head(rows).winner_id # NULL THEN <<Head(rows).winner_id>> ELSE <<>>)
         \o WinnerList(Tail(rows))

\* "mirror scheduler pool selection"
Pool ==
    LET with_image == {e.id : e \in {x \in entrant : x.has_image}}
    IN  IF Cardinality(with_image) >= 2 THEN with_image
        ELSE IF Cardinality(entrant) >= 2 THEN {e.id : e \in entrant}
        ELSE with_image

\* INSERT of a special match into the current round, then the event's
\* deadline moved to the special match's deadline
SpecialMatch(p, left, right) ==
    /\ match' = match \cup {NewMatch(match_seq + 1, res[p].round_index, left, right,
                                     res[p].now + VoteSec, TRUE)}
    /\ match_seq' = match_seq + 1
    /\ event' = IF event.state = "none" THEN event
                ELSE [event EXCEPT !.entry_end_utc = res[p].now + VoteSec,
                                   !.state = "voting"]
    /\ res' = [res EXCEPT ![p] = IdleRes]

\* advance_to_next_round from its entry to the await before "champion?":
\* collect the winners and, in round 1, pair the leftover entrant
AdvanceCollect(p) ==
    /\ res[p].pc = "after"
    /\ ~res[p].any_revote
    /\ LET rows == RoundRows(match, res[p].round_index)
           all_winners_this_round == WinnerList(RowsById(rows))
           fought_ids == {m.left_id : m \in rows} \cup {m.right_id : m \in rows}
           leftover_ids == IF res[p].round_index = 1
                           THEN (Pool \ fought_ids) \ SeqToSet(all_winners_this_round)
                           ELSE {}
           opponent_id == pick_leftover_opponent(rows, LosersWithVotes(rows))
       IN  IF Cardinality(leftover_ids) = 1 /\ opponent_id # NULL
           THEN /\ SpecialMatch(p, CHOOSE x \in leftover_ids : TRUE, opponent_id)
                /\ UNCHANGED <<now, entrant, voter, champions, cmds>>
           ELSE /\ res' = [res EXCEPT
                      ![p].pc = "advance",
                      ![p].winners =
                          IF Cardinality(leftover_ids) = 1
                          THEN Append(all_winners_this_round,
                                      CHOOSE x \in leftover_ids : TRUE)
                          ELSE all_winners_this_round,
                      ![p].leftover_ids =
                          IF Cardinality(leftover_ids) = 1 THEN {} ELSE leftover_ids]
                /\ UNCHANGED <<now, event, entrant, match, match_seq, voter,
                               champions, cmds>>
    /\ UNCHANGED multi

\* Every row pairs the odd-numbered member with itself
PairUp_SelfPairs(ws, round, end, base) ==
    {NewMatch(base + k, round, ws[2 * k - 1], ws[2 * k - 1], end, FALSE) :
        k \in 1..(Len(ws) \div 2)}

\* the rows of round `round` pairing ws[1] with ws[2], ws[3] with ws[4], ...
PairUp(ws, round, end, base) ==
    {NewMatch(base + k, round, ws[2 * k - 1], ws[2 * k], end, FALSE) :
        k \in 1..(Len(ws) \div 2)}

\* The champion is announced but the event is left as it is
DeclareChampion_StaysOpen(p) ==
    /\ event' = event
    /\ champions' = Append(champions, res[p].winners[1])
    /\ res' = [res EXCEPT ![p] = IdleRes]
    /\ UNCHANGED <<now, entrant, match, match_seq, voter, cmds>>

\* "champion?": the single winner is the champion and the event is closed
DeclareChampion(p) ==
    /\ event' = IF event.state = "none" THEN event
                ELSE [event EXCEPT !.state = "closed"]
    /\ champions' = Append(champions, res[p].winners[1])
    /\ res' = [res EXCEPT ![p] = IdleRes]
    /\ UNCHANGED <<now, entrant, match, match_seq, voter, cmds>>

LeftoverWinner_Lowest(ws) == Min(SeqToSet(ws))

\* the winner taken out of an odd list of winners: sorted(...)[-1]
LeftoverWinner(ws) == Max(SeqToSet(ws))

\* advance_to_next_round after the await: champion, special match for an odd
\* number of winners, next round, or nothing to advance
AdvanceDecide(p) ==
    /\ res[p].pc = "advance"
    /\ LET ws == res[p].winners
           rows == RoundRows(match, res[p].round_index)
           odd == Len(ws) >= 1 /\ Len(ws) % 2 = 1
           opponent_id_any == pick_leftover_opponent(rows, LosersWithVotes(rows))
           leftover_winner == LeftoverWinner(ws)
           others == SelectSeq(ws, LAMBDA w : w # leftover_winner)
           pool == IF odd THEN Append(others, leftover_winner) ELSE ws
       IN  IF Len(ws) = 1 /\ res[p].leftover_ids = {}
           THEN DeclareChampion(p)
           ELSE IF odd /\ opponent_id_any # NULL
           THEN /\ SpecialMatch(p, leftover_winner, opponent_id_any)
                /\ UNCHANGED <<now, entrant, voter, champions, cmds>>
           ELSE IF Len(pool) >= 2
           THEN /\ \E f \in Perms(Len(pool)) :
                     match' = match \cup
                         PairUp([i \in 1..Len(pool) |-> pool[f[i]]],
                                res[p].round_index + 1,
                                res[p].now + VoteSec, match_seq)
                /\ match_seq' = match_seq + (Len(pool) \div 2)
                /\ event' = IF event.state = "none" THEN event
                            ELSE [event EXCEPT
                                     !.round_index = res[p].round_index + 1,
                                     !.entry_end_utc = res[p].now + VoteSec,
                                     !.state = "voting"]
                /\ res' = [res EXCEPT ![p] = IdleRes]
                /\ UNCHANGED <<now, entrant, voter, champions, cmds>>
           ELSE /\ res' = [res EXCEPT ![p] = [IdleRes EXCEPT !.pc = "close"]]
                /\ UNCHANGED <<now, event, entrant, match, match_seq, voter,
                               champions, cmds>>
    /\ UNCHANGED multi

\* "nothing to advance": after the notice is sent, the event is closed
AdvanceClose(p) ==
    /\ res[p].pc = "close"
    /\ event' = IF event.state = "none" THEN event
                ELSE [event EXCEPT !.state = "closed"]
    /\ res' = [res EXCEPT ![p] = IdleRes]
    /\ UNCHANGED <<now, entrant, match, match_seq, voter, champions, cmds>>
    /\ UNCHANGED multi

\* ------------------------------------------------------------ the scheduler
\* The entry pass pairs the entrants and leaves the event in 'entry'
EntryToVoting_StaysEntry ==
    LET with_image == {e.id : e \in {x \in entrant : x.has_image}}
        ids == IF Cardinality(with_image) >= 2 THEN with_image
               ELSE {e.id : e \in entrant}
        entrants == RowsById({[id |-> i] : i \in ids})
    IN  /\ IF Cardinality(ids) < 2
           THEN /\ event' = [event EXCEPT !.state = "closed"]
                /\ UNCHANGED <<match, match_seq>>
           ELSE /\ \E f \in Perms(Len(entrants)) :
                     match' = match \cup
                         PairUp([i \in 1..Len(entrants) |-> entrants[f[i]].id],
                                1, now + VoteSec, match_seq)
                /\ match_seq' = match_seq + (Len(entrants) \div 2)
                /\ event' = event
        /\ res' = [res EXCEPT !["sched"] = [IdleRes EXCEPT !.pc = "vpass", !.now = now]]
        /\ UNCHANGED <<now, entrant, voter, champions, cmds>>

\* ENTRY -> VOTING for an event whose entry deadline has passed, up to the
\* first await after its commit
EntryToVoting ==
    LET with_image == {e.id : e \in {x \in entrant : x.has_image}}
        ids == IF Cardinality(with_image) >= 2 THEN with_image
               ELSE {e.id : e \in entrant}
        entrants == RowsById({[id |-> i] : i \in ids})
    IN  /\ IF Cardinality(ids) < 2
           THEN /\ event' = [event EXCEPT !.state = "closed"]
                /\ UNCHANGED <<match, match_seq>>
           ELSE /\ \E f \in Perms(Len(entrants)) :
                     match' = match \cup
                         PairUp([i \in 1..Len(entrants) |-> entrants[f[i]].id],
                                1, now + VoteSec, match_seq)
                /\ match_seq' = match_seq + (Len(entrants) \div 2)
                /\ event' = [event EXCEPT !.state = "voting", !.round_index = 1,
                                          !.entry_end_utc = now + VoteSec]
        /\ res' = [res EXCEPT !["sched"] = [IdleRes EXCEPT !.pc = "vpass", !.now = now]]
        /\ UNCHANGED <<now, entrant, voter, champions, cmds>>

\* One tick of the tasks.loop: now is read once; the entry pass runs first and
\* the voting-end pass follows it without an await when the entry pass had
\* nothing to do.  A tick that finds nothing due changes nothing.
scheduler ==
    /\ res["sched"].pc = "idle"
    /\ event.state \in {"entry", "voting"}
    /\ now >= event.entry_end_utc
    /\ IF event.state = "entry"
       THEN EntryToVoting
       ELSE /\ ReadRound("sched", now)
            /\ UNCHANGED <<now, event, entrant, match_seq, champions, cmds>>
    /\ UNCHANGED multi

\* The voting-end pass of a tick whose entry pass has awaited: it reads the
\* event again and compares its deadline with the tick's now.
SchedulerVotingPass ==
    /\ res["sched"].pc = "vpass"
    /\ IF event.state = "voting" /\ res["sched"].now >= event.entry_end_utc
       THEN ReadRound("sched", res["sched"].now)
       ELSE /\ res' = [res EXCEPT !["sched"] = IdleRes]
            /\ UNCHANGED <<match, voter>>
    /\ UNCHANGED <<now, event, entrant, match_seq, champions, cmds>>
    /\ UNCHANGED multi

\* ------------------------------------------------------------------- reset
\* StyloStartModal.on_submit: wipe the guild's matches and entrants, REPLACE
\* the event row
StyloStartModal_on_submit ==
    /\ cmds["start"] > 0
    /\ match' = {}
    /\ entrant' = {}
    /\ event' = [state |-> "entry", entry_end_utc |-> now + EntrySec, round_index |-> 0]
    /\ cmds' = [cmds EXCEPT !["start"] = @ - 1]
    /\ UNCHANGED <<now, match_seq, voter, res, champions>>
    /\ UNCHANGED multi

\* -------------------------------------------------------------------- time
Tick ==
    /\ now < MaxNow
    /\ now' = now + 1
    /\ UNCHANGED <<event, entrant, match, match_seq, voter, res, champions, cmds>>
    /\ UNCHANGED multi

\* ---------------------------------------------------------- specifications
\* A tournament whose entry deadline is reached with n entrants, all with an
\* image; c gives the commands the admins will issue
InitEntry(n, c) ==
    /\ now = 0
    /\ event = [state |-> "entry", entry_end_utc |-> 0, round_index |-> 0]
    /\ entrant = {[id |-> i, has_image |-> TRUE] : i \in 1..n}
    /\ match = {}
    /\ match_seq = 0
    /\ voter = {}
    /\ res = [p \in Procs |-> IdleRes]
    /\ champions = <<>>
    /\ cmds = c
    /\ events = <<>>
    /\ tick = IdleTick

Vote == \E m \in match, u \in Voters, side \in Sides : MatchView_vote(m.id, u, side)

Commands(fin, fin2, start) == [fin |-> fin, fin2 |-> fin2, start |-> start]

\* Rounds are closed by one admin's forced finish; the clock stands still.
Init == \E n \in 2..MaxEntrants : InitEntry(n, Commands(ANY, 0, 0))

Next ==
    \/ Vote
    \/ scheduler
    \/ SchedulerVotingPass
    \/ stylo_finish_round_now("fin")
    \/ ResolveNext("fin")
    \/ ExtendRound("fin")
    \/ AdvanceCollect("fin")
    \/ AdvanceDecide("fin")

Spec == Init /\ [][Next]_vars

\* A second admin issues one forced finish while the first admin's may be
\* suspended, and the other way round.
Fins == {"fin", "fin2"}

InitRace == \E n \in 2..RaceEntrants : InitEntry(n, Commands(ANY, 1, 0))

NextRace ==
    \/ \E m \in match, side \in Sides : MatchView_vote(m.id, 1, side)
    \/ scheduler
    \/ SchedulerVotingPass
    \/ \E p \in Fins : stylo_finish_round_now(p)
    \/ \E p \in Fins : ResolveNext(p)
    \/ \E p \in Fins : ExtendRound(p)
    \/ \E p \in Fins : AdvanceCollect(p)
    \/ \E p \in Fins : AdvanceDecide(p)

SpecRace == InitRace /\ [][NextRace]_vars

\* A larger field and one voter; nobody votes while a forced finish is in
\* progress, the admin forces finishes in the first BracketRounds rounds and
\* may start a new tournament once, at any moment.
Quiet == \A p \in Procs : res[p].pc = "idle"

InitBracket == InitEntry(BracketEntrants, Commands(ANY, 0, 1))

NextBracket ==
    \/ Quiet /\ \E m \in match, side \in Sides : MatchView_vote(m.id, 1, side)
    \/ scheduler
    \/ SchedulerVotingPass
    \/ event.round_index <= BracketRounds /\ stylo_finish_round_now("fin")
    \/ ResolveNext("fin")
    \/ ExtendRound("fin")
    \/ AdvanceCollect("fin")
    \/ AdvanceDecide("fin")
    \/ AdvanceClose("fin")
    \/ StyloStartModal_on_submit

SpecBracket == InitBracket /\ [][NextBracket]_vars

\* One match between two entrants: the voters, the scheduler on the running
\* clock, and two admins' forced finishes.
InitVote == InitEntry(2, Commands(ANY, 1, 0))

NextVote ==
    \/ Vote
    \/ scheduler
    \/ SchedulerVotingPass
    \/ \E p \in Fins : stylo_finish_round_now(p)
    \/ \E p \in Procs : ExtendRound(p)
    \/ \E p \in Procs : AdvanceCollect(p)
    \/ \E p \in Procs : AdvanceDecide(p)
    \/ Tick

SpecVote == InitVote /\ [][NextVote]_vars

\* ------------------------------------------------------------------ claims
HasVoted(mid, uid) == \E v \in voter : v.match_id = mid /\ v.user_id = uid
VoterRows(mid, side) == {v \in voter : v.match_id = mid /\ v.side = side}

\* C1 (vote idempotence): while a match's voting window is open, a voter who
\* has voted in it has exactly one voter row and is counted exactly once (each
\* counter equals the number of rows of its side), and a further press by
\* that voter, on either side, is answered "already voted" and so changes
\* neither counter.
C1_VoteIdempotence ==
    \A m \in match :
        /\ m.left_votes = Cardinality(VoterRows(m.id, "L"))
        /\ m.right_votes = Cardinality(VoterRows(m.id, "R"))
        /\ \A u \in Voters :
              /\ Cardinality({v \in voter : v.match_id = m.id /\ v.user_id = u}) <= 1
              /\ HasVoted(m.id, u) /\ now < m.end_utc
                    => /\ VoteOutcome(m.id, u) = "already_voted"
                       /\ \A side \in Sides : ~ENABLED MatchView_vote(m.id, u, side)

\* A voter has voted in a window that was opened by a tie reset and is still
\* open, while another voter has not.
C1_Witness ==
    \E m \in match, u, w \in Voters :
        /\ HasVoted(m.id, u) /\ ~HasVoted(m.id, w)
        /\ m.winner_id = NULL /\ now < m.end_utc /\ now > 0
        /\ VoteOutcome(m.id, u) = "already_voted"

\* A step resolves match m when it writes its winner or moves its deadline
Resolved(m, m2) ==
    /\ m2.id = m.id
    /\ m.winner_id = NULL
    /\ (m2.winner_id # NULL \/ m2.end_utc # m.end_utc)

\* C2 (tie never decides): under any interleaving of votes, scheduler ticks and
\* forced finishes, a step that writes a match's winner_id finds the match's
\* persisted left_votes and right_votes different, and a step that resolves a
\* match whose persisted counts are equal reopens it: both counts 0 and
\* winner_id NULL.
C2_TieNeverDecides ==
    [][\A m \in match : \A m2 \in match' :
          Resolved(m, m2) =>
              /\ m2.winner_id # NULL => m.left_votes # m.right_votes
              /\ m.left_votes = m.right_votes
                    => /\ m2.winner_id = NULL
                       /\ m2.left_votes = 0 /\ m2.right_votes = 0]_vars

\* C3 (winner is the side with strictly more votes): a step that decides a
\* match writes as winner_id the participant of the side whose persisted count
\* is strictly greater than the other side's, and leaves both counts as they
\* were.
C3_WinnerHasMoreVotes ==
    [][\A m \in match : \A m2 \in match' :
          (m2.id = m.id /\ m.winner_id = NULL /\ m2.winner_id # NULL) =>
              /\ \/ m2.winner_id = m.left_id /\ m.left_votes > m.right_votes
                 \/ m2.winner_id = m.right_id /\ m.right_votes > m.left_votes
              /\ m2.left_votes = m.left_votes
              /\ m2.right_votes = m.right_votes]_vars

\* C4 (no self-pairing): no match row, whichever INSERT made it, has the same
\* participant on both sides.
C4_NoSelfPairing == \A m \in match : m.left_id # m.right_id

\* C5 (votes only on open matches): a press is accepted only when the match
\* exists, its persisted deadline has not passed and it has no winner; and a
\* step never changes the counts or the voter rows of a match that has a winner.
C5_DecidedTalliesFrozen ==
    [][/\ \A m \in match, u \in Voters :
              VoteOutcome(m.id, u) = "accepted" => now < m.end_utc /\ m.winner_id = NULL
       /\ \A m \in match : \A m2 \in match' :
              (m2.id = m.id /\ m.winner_id # NULL) =>
                  /\ m2.left_votes = m.left_votes
                  /\ m2.right_votes = m.right_votes
                  /\ {v \in voter' : v.match_id = m.id} = {v \in voter : v.match_id = m.id}]_vars

\* The rows a step inserts into match
Created == {m2 \in match' : ~\E m \in match : m.id = m2.id}

\* C6 (two resolution attempts behave as one): a row that has a winner is not
\* written again; a wildcard row is inserted into a round only when every row
\* of that round has a winner and the next round has no row; the pairings of
\* a round are inserted only when that round has no row; and at most one
\* champion is declared.
C6_ResolvedOnce ==
    [][/\ \A m \in match : \A m2 \in match' :
              (m2.id = m.id /\ m.winner_id # NULL) => m2 = m
       /\ \A c \in Created :
              IF c.wild
              THEN /\ \A m \in RoundRows(match, c.round_index) : m.winner_id # NULL
                   /\ RoundRows(match, c.round_index + 1) = {}
              ELSE RoundRows(match, c.round_index) = {}
       /\ Len(champions') <= 1]_vars

\* C7 (Closed is terminal): while no new tournament is started, a step taken
\* when the event's state is 'closed' changes neither the event row (state,
\* round_index, deadline) nor any match row.
C7_ClosedIsTerminal ==
    [][event.state = "closed" => event' = event /\ match' = match]_vars

RECURSIVE CeilLog2(_)
CeilLog2(n) == IF n <= 1 THEN 0 ELSE 1 + CeilLog2((n + 1) \div 2)

\* C8 (round bound at termination): when the tournament is closed with a
\* champion, the final round index is at most ceil(log2(N)) plus the number of
\* wildcard matches created, N being the number of eligible participants.
C8_RoundBound ==
    (event.state = "closed" /\ champions # <<>>)
        => event.round_index <= CeilLog2(Cardinality(entrant))
                                  + Cardinality({m \in match : m.wild})

\* C9 (pool parity): a step of advance_to_next_round that inserts the
\* pairings of round r+1 pairs a winners pool of even size >= 2 and places
\* every member of it (two per inserted row); a step that gives up or declares
\* the champion does so with a pool of size 0 or 1.
C9_PoolParity ==
    [][\A p \in Fins :
          (res[p].pc = "advance" /\ res'[p].pc # "advance") =>
              /\ (\E c \in Created : ~c.wild) =>
                    /\ Len(res[p].winners) >= 2
                    /\ Len(res[p].winners) % 2 = 0
                    /\ 2 * Cardinality(Created) = Len(res[p].winners)
              /\ (res'[p].pc = "close" \/ champions' # champions)
                    => Len(res[p].winners) <= 1]_vars

\* C10 (at most one primary match per participant and round): two different
\* primary rows of one round share no participant, and no primary row has the
\* same participant on both sides.
C10_OncePerRound ==
    \A m1 \in match : ~m1.wild =>
        /\ m1.left_id # m1.right_id
        /\ \A m2 \in match :
              (~m2.wild /\ m2.id # m1.id /\ m2.round_index = m1.round_index)
                  => {m1.left_id, m1.right_id} \cap {m2.left_id, m2.right_id} = {}

\* Five entrants, two voters and one admin: round 1 up to the special match
\* of the unpaired entrant; nobody votes while a forced finish is in progress.
InitPick == InitEntry(PickEntrants, Commands(ANY, 0, 0))

NextPick ==
    \/ Quiet /\ Vote
    \/ scheduler
    \/ SchedulerVotingPass
    \/ (~\E m \in match : m.wild) /\ stylo_finish_round_now("fin")
    \/ ResolveNext("fin")
    \/ ExtendRound("fin")
    \/ AdvanceCollect("fin")

SpecPick == InitPick /\ [][NextPick]_vars

\* The losses of a round: who lost a decided row, with how many votes, and
\* how many votes the row had in all
Losses(rows) ==
    {[id |-> LoserId(m), votes |-> LoserVotes(m),
      total |-> m.left_votes + m.right_votes] : m \in {x \in rows : x.winner_id # NULL}}

\* Highest losing votes, then highest total votes of the row, then lowest id
StrongestLosers(rows) ==
    {t.id : t \in {x \in Losses(rows) :
        \A u \in Losses(rows) :
            \/ u.votes < x.votes
            \/ u.votes = x.votes /\ u.total < x.total
            \/ u.votes = x.votes /\ u.total = x.total /\ x.id <= u.id}}

\* C11 (strongest-loser selection): the opponent put into a wildcard row is,
\* among the participants who lost a decided row of that round, one with the
\* highest losing vote count, among those one whose row had the highest total
\* of votes, and among those the one with the lowest id.
C11_StrongestLoser ==
    [][\A c \in Created :
          c.wild => c.right_id \in StrongestLosers(RoundRows(match, c.round_index))]_vars

\* The round-1 rows made by the entry pass, and the wildcard rows of round 1
Primary1 == {m \in RoundRows(match, 1) : ~m.wild}
Wild1 == {m \in RoundRows(match, 1) : m.wild}
Plays(m, e) == m.left_id = e \/ m.right_id = e

\* C12 (the unpaired entrant of an odd field): with an odd number N >= 3 of
\* eligible entrants, round 1 has N div 2 primary rows and exactly one entrant
\* in none of them; the first wildcard row of round 1 is created only when all
\* primary rows are decided and pairs that entrant with a loser of a primary
\* row; and the entrant plays in round 2 only if that wildcard row exists and
\* the entrant is its winner.
C12_UnpairedPlaysWildcard ==
    LET N == Cardinality(entrant)
        unpaired == {e.id : e \in entrant} \
                        UNION {{m.left_id, m.right_id} : m \in Primary1}
    IN  (Primary1 # {} /\ N >= 3 /\ N % 2 = 1) =>
            /\ Cardinality(Primary1) = N \div 2
            /\ Cardinality(unpaired) = 1
            /\ \A u \in unpaired :
                  /\ \A w \in Wild1 :
                        (\A x \in Wild1 : w.id <= x.id) =>
                            /\ \A m \in Primary1 : m.winner_id # NULL
                            /\ w.left_id = u
                            /\ \E m \in Primary1 : w.right_id = LoserId(m)
                  /\ (\E m \in RoundRows(match, 2) : Plays(m, u)) =>
                        \E w \in Wild1 : /\ \A x \in Wild1 : w.id <= x.id
                                         /\ w.winner_id = u

\* C13 (five entrants): round 1 has 2 primary rows and one unpaired entrant;
\* at most one wildcard row is ever created in round 1, only when both
\* primary rows are decided, between the unpaired entrant and a loser of a
\* primary row; and round 2 is a single row, created only when that wildcard
\* row is decided.
C13_FiveEntrants ==
    LET unpaired == {e.id : e \in entrant} \
                        UNION {{m.left_id, m.right_id} : m \in Primary1}
    IN  (Cardinality(entrant) = 5 /\ Primary1 # {}) =>
            /\ Cardinality(Primary1) = 2
            /\ Cardinality(unpaired) = 1
            /\ Cardinality(Wild1) <= 1
            /\ \A w \in Wild1 :
                  /\ \A m \in Primary1 : m.winner_id # NULL
                  /\ w.left_id \in unpaired
                  /\ \E m \in Primary1 : w.right_id = LoserId(m)
            /\ Cardinality(RoundRows(match, 2)) <= 1
            /\ RoundRows(match, 2) # {} =>
                  \E w \in Wild1 : w.winner_id # NULL

\* How often e stands in a list, and how often it plays in a set of rows
Occurrences(ws, e) == Cardinality({i \in 1..Len(ws) : ws[i] = e})
Slots(rows, e) ==
    Cardinality({m \in rows : m.left_id = e}) + Cardinality({m \in rows : m.right_id = e})

\* The decided rows of round r and their winners
AllDecided(r) ==
    /\ RoundRows(match, r) # {}
    /\ \A m \in RoundRows(match, r) : m.winner_id # NULL
RoundWinners(r) == WinnerList(RowsById(RoundRows(match, r)))

\* C14 (even-pool advance): when advance_to_next_round decides about round r
\* with every row of r decided and an even number k >= 2 of winners, all of
\* them collected by it, the step
\* inserts exactly k/2 rows, all primary rows of round r+1, in which every
\* winner plays once for each row of round r it has won, sets round_index to
\* r+1 and leaves the state 'voting'.
C14_EvenPoolAdvance ==
    [][\A p \in Fins :
          LET r == res[p].round_index
              k == Len(RoundWinners(r))
          IN  (/\ res[p].pc = "advance" /\ res'[p].pc # "advance"
               /\ AllDecided(r) /\ res[p].winners = RoundWinners(r)
               /\ k >= 2 /\ k % 2 = 0) =>
                  /\ Cardinality(Created) = k \div 2
                  /\ \A c \in Created : ~c.wild /\ c.round_index = r + 1
                  /\ \A e \in 1..MaxEntrants :
                        Slots(Created, e) = Occurrences(RoundWinners(r), e)
                  /\ event'.round_index = r + 1
                  /\ event'.state = "voting"]_vars

\* Four entrants: both round-1 rows are decided, round 2 is one row between
\* their two winners and the event is in round 2.
C14_Witness ==
    /\ Cardinality(entrant) = 4
    /\ AllDecided(1)
    /\ event.round_index = 2 /\ event.state = "voting"
    /\ Cardinality(RoundRows(match, 2)) = 1
    /\ \A e \in SeqToSet(RoundWinners(1)) : Slots(RoundRows(match, 2), e) = 1

\* The entrants of the field that have played in no row of round 1
Waiting == Pool \ UNION {{m.left_id, m.right_id} : m \in RoundRows(match, 1)}

\* C15 (champion declaration): when advance_to_next_round decides about a
\* round whose rows are all decided, with exactly one winner, collected by it,
\* and no entrant still waiting to play, the step announces that winner as
\* champion, sets the state to 'closed' and inserts no row.
C15_ChampionDeclared ==
    [][\A p \in Fins :
          LET r == res[p].round_index
          IN  (/\ res[p].pc = "advance" /\ res'[p].pc # "advance"
               /\ AllDecided(r) /\ res[p].winners = RoundWinners(r)
               /\ Len(RoundWinners(r)) = 1 /\ Waiting = {}) =>
                  /\ champions' = Append(champions, RoundWinners(r)[1])
                  /\ event'.state = "closed"
                  /\ event'.round_index = event.round_index
                  /\ match' = match]_vars

\* The only row of the current round is decided, its winner has been
\* announced as champion and the event is closed.
C15_Witness ==
    /\ event.state = "closed"
    /\ AllDecided(event.round_index)
    /\ Cardinality(RoundRows(match, event.round_index)) = 1
    /\ champions = RoundWinners(event.round_index)
    /\ Waiting = {}

\* C16 (wildcard creation): a step inserts a wildcard row only when every row
\* of the event's current round is decided and the event is in 'voting'; it
\* inserts exactly that one row, into the current round, with the deadline
\* now + vote window (now as read by the resolver that inserts it), sets the
\* round deadline to that deadline and leaves state = 'voting', round_index
\* unchanged and the next round without a row.
C16_WildcardCreation ==
    [][\A c \in Created :
          c.wild =>
              /\ \A m \in RoundRows(match, event.round_index) : m.winner_id # NULL
              /\ event.state = "voting"
              /\ Created = {c}
              /\ c.round_index = event.round_index
              /\ \E p \in Fins : /\ res[p].pc \in {"after", "advance"}
                                 /\ res'[p].pc = "idle"
                                 /\ c.end_utc = res[p].now + VoteSec
              /\ event'.entry_end_utc = c.end_utc
              /\ event'.state = "voting"
              /\ event'.round_index = event.round_index
              /\ RoundRows(match', event.round_index + 1) = {}]_vars

\* Five entrants, one voter who votes only while no forced finish is in
\* progress, and two admins who force finishes in the first BracketRounds
\* rounds: the first admin issues WildFinishes of them, the second admin one,
\* after a wildcard row has been decided.
InitWild == InitEntry(BracketEntrants, Commands(WildFinishes, 1, 0))

WildDecided == \E m \in match : m.wild /\ m.winner_id # NULL

NextWild ==
    \/ /\ Quiet /\ event.round_index <= BracketRounds
       /\ \E m \in match, side \in Sides : MatchView_vote(m.id, 1, side)
    \/ scheduler
    \/ SchedulerVotingPass
    \/ event.round_index <= BracketRounds /\ stylo_finish_round_now("fin")
    \/ /\ event.round_index <= BracketRounds /\ WildDecided
       /\ stylo_finish_round_now("fin2")
    \/ \E p \in Fins : ResolveNext(p)
    \/ \E p \in Fins : ExtendRound(p)
    \/ \E p \in Fins : AdvanceCollect(p)
    \/ \E p \in Fins : AdvanceDecide(p)

SpecWild == InitWild /\ [][NextWild]_vars

\* C17 (a tie stops the pass): the step that ends a resolution pass in which a
\* row was reopened inserts no row, collects no winners, announces no
\* champion and changes neither state nor round_index; it sets the round
\* deadline to the deadline the pass gave to the rows it reopened, now + vote
\* window with the pass's now.
C17_TieStopsPass ==
    [][\A p \in Procs :
          (res[p].pc = "after" /\ res[p].any_revote /\ res'[p] # res[p]) =>
              /\ match' = match
              /\ champions' = champions
              /\ res'[p] = IdleRes
              /\ event'.state = event.state
              /\ event'.round_index = event.round_index
              /\ event'.entry_end_utc = res[p].now + VoteSec]_vars

\* The row a resolver compares in this step: the first undecided row of the
\* event's round when it starts its pass, the next row of its list when it
\* resumes its loop
Starts(p) == res[p].pc \in {"idle", "vpass"} /\ res'[p].pc \in {"loop", "after"}
Undecided == RowsById({m \in RoundRows(match, event.round_index) : m.winner_id = NULL})
Compared(p) ==
    IF res[p].pc = "loop" /\ res'[p] # res[p] THEN <<Head(res[p].matches)>>
    ELSE IF Starts(p) /\ Undecided # <<>> THEN <<Snapshot(Head(Undecided))>>
    ELSE <<>>

\* C18 (tie re-vote): when a resolver finds a row tied (0-0 included), the
\* step sets its counts to 0-0, deletes all its voter rows, leaves it without
\* winner and sets its deadline to now + vote window (the pass's now); and
\* while that deadline has not passed a press of any voter on the row is
\* accepted, whether or not the voter had voted in the tied window.
C18_TieRevote ==
    [][\A p \in Procs :
          \A i \in 1..Len(Compared(p)) :
              LET row == Compared(p)[i]
              IN  row.left_votes = row.right_votes =>
                      \A m \in match' :
                          m.id = row.id =>
                              /\ m.left_votes = 0 /\ m.right_votes = 0
                              /\ m.winner_id = NULL
                              /\ m.end_utc = res'[p].now + VoteSec
                              /\ ~\E v \in voter' : v.match_id = m.id
                              /\ now' < m.end_utc =>
                                    \A u \in Voters : VoteOutcome(m.id, u)' = "accepted"]_vars

\* A row was found tied at its deadline, its window was opened again and a
\* voter has voted in the new window, which is still open.
C18_Witness ==
    \E m \in match, u \in Voters :
        /\ m.end_utc > VoteSec /\ now < m.end_utc
        /\ m.winner_id = NULL
        /\ HasVoted(m.id, u)
        /\ m.left_votes + m.right_votes = Cardinality({v \in voter : v.match_id = m.id})

\* ------------------------------------------------- entrants without an image
\* A tournament whose entry deadline is reached with n entrants of whom those
\* in imgs have uploaded an image: the join modal inserts the entrant row
\* without image_url, the upload in the ticket sets it later.
InitJoined(n, imgs, c) ==
    /\ now = 0
    /\ event = [state |-> "entry", entry_end_utc |-> 0, round_index |-> 0]
    /\ entrant = {[id |-> i, has_image |-> i \in imgs] : i \in 1..n}
    /\ match = {}
    /\ match_seq = 0
    /\ voter = {}
    /\ res = [p \in Procs |-> IdleRes]
    /\ champions = <<>>
    /\ cmds = c
    /\ events = <<>>
    /\ tick = IdleTick

InitImages ==
    \E n \in 0..JoinedEntrants : \E imgs \in SUBSET (1..n) :
        InitJoined(n, imgs, Commands(ANY, 0, 0))

NextImages ==
    \/ Vote
    \/ scheduler
    \/ SchedulerVotingPass
    \/ stylo_finish_round_now("fin")
    \/ ExtendRound("fin")
    \/ AdvanceCollect("fin")
    \/ AdvanceDecide("fin")

SpecImages == InitImages /\ [][NextImages]_vars

WithImage == {e \in entrant : e.has_image}

\* C19 (Scenario A): when no participant has an image once the entry deadline
\* has been handled, the tournament is Closed, has no champion and has no
\* match, however many participants joined.
C19_NoEligibleEntrant ==
    (WithImage = {} /\ event.state # "entry") =>
        /\ event.state = "closed"
        /\ champions = <<>>
        /\ match = {}

\* C20 (Scenario B): when exactly one participant has an image once the entry
\* deadline has been handled, the tournament is Closed, that participant is
\* its champion and there is no match.
C20_SingleEligibleEntrant ==
    \A e \in entrant :
        (WithImage = {e} /\ event.state # "entry") =>
            /\ event.state = "closed"
            /\ champions = <<e.id>>
            /\ match = {}

\* C21 (eligibility): every participant that is left or right of a match has
\* an image (the entrants' images do not change in these runs, so they are
\* the images of the moment round 1 was generated).
C21_Eligibility ==
    \A m \in match : \A e \in entrant :
        Plays(m, e.id) => e.has_image

\* The rows of round 1 that the entry pass creates (a special match of round 1
\* is created by advance_to_next_round)
Paired1(M) == {m.id : m \in {x \in M : x.round_index = 1 /\ ~x.wild}}

RECURSIVE finish_loop(_, _, _, _, _)
finish_loop(matches, M, V, nowp, any_revote) ==
    IF matches = <<>> THEN [match |-> M, voter |-> V, any_revote |-> any_revote]
    ELSE LET m == Head(matches)
             L == m.left_votes
             R == m.right_votes
             winner_id == IF L > R THEN m.left_id ELSE m.right_id
         IN  IF L = R
             THEN finish_loop(Tail(matches),
                      {IF x.id # m.id THEN x
                       ELSE [x EXCEPT !.left_votes = 0, !.right_votes = 0,
                                      !.end_utc = nowp + VoteSec,
                                      !.winner_id = NULL] : x \in M},
                      {v \in V : v.match_id # m.id}, nowp, TRUE)
             ELSE finish_loop(Tail(matches),
                      {IF x.id # m.id THEN x
                       ELSE [x EXCEPT !.winner_id = winner_id, !.end_utc = nowp] : x \in M},
                      V, nowp, any_revote)

\* A forced finish advances although it has reopened a tied row
finish_pass_AdvancesOnTie(M, V, ev, nowp) ==
    LET matches == RowsById({m \in M : m.round_index = ev.round_index
                                        /\ m.winner_id = NULL})
        r  == finish_loop(matches, M, V, nowp, FALSE)
    IN  [match |-> r.match, voter |-> r.voter, event |-> ev, advance |-> TRUE]

\* stylo_finish_round_now from its SELECT of the undecided rows to its call of
\* advance_to_next_round
finish_pass(M, V, ev, nowp) ==
    LET matches == RowsById({m \in M : m.round_index = ev.round_index
                                        /\ m.winner_id = NULL})
        r  == finish_loop(matches, M, V, nowp, FALSE)
        mx == {m.end_utc : m \in {x \in r.match : x.round_index = ev.round_index}}
    IN  [match |-> r.match, voter |-> r.voter,
         event |-> IF r.any_revote /\ mx # {}
                   THEN [ev EXCEPT !.entry_end_utc = Max(mx), !.state = "voting"]
                   ELSE ev,
         advance |-> ~r.any_revote]

\* scheduler, voting-end pass: "for m in matches"
RECURSIVE scheduler_loop(_, _, _, _, _)
scheduler_loop(matches, M, V, nowp, any_revote) ==
    IF matches = <<>> THEN [match |-> M, voter |-> V, any_revote |-> any_revote]
    ELSE LET m == Head(matches)
             L == m.left_votes
             R == m.right_votes
         IN  IF L = R
             THEN scheduler_loop(Tail(matches),
                      {IF x.id = m.id
                       THEN [x EXCEPT !.left_votes = 0, !.right_votes = 0,
                                      !.end_utc = nowp + VoteSec,
                                      !.winner_id = NULL]
                       ELSE x : x \in M},
                      V \ {v \in V : v.match_id = m.id}, nowp, TRUE)
             ELSE scheduler_loop(Tail(matches),
                      {IF x.id = m.id
                       THEN [x EXCEPT !.winner_id = IF L > R THEN m.left_id
                                                     ELSE m.right_id,
                                      !.end_utc = nowp]
                       ELSE x : x \in M},
                      V, nowp, any_revote)

\* scheduler, voting-end pass of an event that is due, from its SELECT of the
\* undecided rows to its call of advance_to_next_round
scheduler_pass(M, V, ev, nowp) ==
    LET matches == RowsById({m \in RoundRows(M, ev.round_index) : m.winner_id = NULL})
        r == scheduler_loop(matches, M, V, nowp, FALSE)
        ends == {m.end_utc : m \in RoundRows(r.match, ev.round_index)}
    IN  IF r.any_revote
        THEN [match |-> r.match, voter |-> r.voter,
              event |-> IF ends # {}
                        THEN [ev EXCEPT !.entry_end_utc = Max(ends), !.state = "voting"]
                        ELSE ev,
              advance |-> FALSE]
        ELSE [match |-> r.match, voter |-> r.voter, event |-> ev, advance |-> TRUE]

\* The two passes agree on the tables as they are now
SamePasses ==
    event.state = "voting" =>
        finish_pass(match, voter, event, now) = scheduler_pass(match, voter, event, now)


\* C23 (a forced finish runs the logic of a deadline-triggered resolution):
\* from any persisted state of a tournament in voting and the same now, the
\* pass of stylo_finish_round_now and the voting-end pass of the scheduler
\* leave the same match rows, voter rows and event row (the same rows decided
\* with the same winners, the same rows reopened and reset, the same extension
\* of the round deadline) and both or neither call advance_to_next_round.
\* Every step in which a resolver compares a row writes what the loop of its
\* own pass writes for that row.
C23_ForcedFinishSameLogic ==
    [][/\ SamePasses
       /\ \A p \in Procs :
             Compared(p) # <<>> =>
                 LET r == IF p = "sched"
                          THEN scheduler_loop(Compared(p), match, voter, res'[p].now, FALSE)
                          ELSE finish_loop(Compared(p), match, voter, res'[p].now, FALSE)
                 IN  /\ match' = r.match
                     /\ voter' = r.voter
                     /\ res'[p].any_revote = (res[p].any_revote \/ r.any_revote)]_vars

\* The round deadline has passed with a tied row that has votes, and no
\* resolver is running: the scheduler's tick and a forced finish can both
\* start here, and either reopens the row and extends the round.
C23_Witness ==
    /\ event.state = "voting"
    /\ now >= event.entry_end_utc
    /\ \A p \in Procs : res[p].pc = "idle"
    /\ \E m \in RoundRows(match, event.round_index) :
          m.winner_id = NULL /\ m.left_votes = m.right_votes /\ m.left_votes > 0
    /\ ~finish_pass(match, voter, event, now).advance
    /\ scheduler_pass(match, voter, event, now).event.entry_end_utc > event.entry_end_utc

\* ------------------------------------------------------- the entry window
Users == 1..MaxUsers
Names == 1..MaxNames

\* The entrant row as the join modal knows it (image_url is not its concern)
Joined(E) == {[id |-> e.id, user_id |-> e.user_id, name |-> e.name] : e \in E}

\* The join modal checks the state but not the deadline
EntrantModal_on_submit_NoDeadline(u, name) ==
    /\ IF event.state # "entry"
       THEN entrant' = entrant
       ELSE IF \E e \in entrant : e.user_id = u
            THEN entrant' = {IF e.user_id = u THEN [e EXCEPT !.name = name] ELSE e :
                                e \in entrant}
            ELSE entrant' = entrant \cup
                     {[id |-> Cardinality(entrant) + 1, has_image |-> FALSE,
                       user_id |-> u, name |-> name]}
    /\ UNCHANGED <<now, event, match, match_seq, voter, res, champions, cmds>>
    /\ UNCHANGED multi

\* EntrantModal.on_submit up to its commit: the event row is read, the state
\* and the deadline are checked and the row is inserted, or updated when the
\* member has one (UNIQUE(guild_id, user_id)), without an await in between.
\* id is AUTOINCREMENT; no entrant row is deleted in the runs that join.
EntrantModal_on_submit(u, name) ==
    /\ IF event.state # "entry" \/ now >= event.entry_end_utc
       THEN entrant' = entrant
       ELSE IF \E e \in entrant : e.user_id = u
            THEN entrant' = {IF e.user_id = u THEN [e EXCEPT !.name = name] ELSE e :
                                e \in entrant}
            ELSE entrant' = entrant \cup
                     {[id |-> Cardinality(entrant) + 1, has_image |-> FALSE,
                       user_id |-> u, name |-> name]}
    /\ UNCHANGED <<now, event, match, match_seq, voter, res, champions, cmds>>
    /\ UNCHANGED multi

\* on_message in an entrant's ticket channel with an image attached: the
\* entrant is found through the ticket row and image_url is set to the
\* re-hosted upload; the event row is not read.
on_message(e) ==
    /\ e \in entrant
    /\ entrant' = (entrant \ {e}) \cup {[e EXCEPT !.has_image = TRUE]}
    /\ UNCHANGED <<now, event, match, match_seq, voter, res, champions, cmds>>
    /\ UNCHANGED multi

\* A tournament as StyloStartModal.on_submit leaves it: entries open until
\* now + EntrySec, nobody has joined
InitOpen ==
    /\ now = 0
    /\ event = [state |-> "entry", entry_end_utc |-> EntrySec, round_index |-> 0]
    /\ entrant = {}
    /\ match = {}
    /\ match_seq = 0
    /\ voter = {}
    /\ res = [p \in Procs |-> IdleRes]
    /\ champions = <<>>
    /\ cmds = Commands(0, 0, 0)
    /\ events = <<>>
    /\ tick = IdleTick

NextOpen ==
    \/ \E u \in Users, name \in Names : EntrantModal_on_submit(u, name)
    \/ \E e \in entrant : on_message(e)
    \/ Tick
    \/ scheduler
    \/ SchedulerVotingPass
    \/ ExtendRound("sched")

SpecOpen == InitOpen /\ [][NextOpen]_vars

\* C26 (images are frozen when voting begins): a step that changes an
\* entrant's image_url is taken while the tournament's state is 'entry'.
C26_ImageFrozenAfterEntry ==
    [][(\E e \in entrant : \E f \in entrant' : f.id = e.id /\ f.has_image # e.has_image)
          => event.state = "entry"]_vars

\* C27 (the entry deadline is set once): no step changes entry_end_utc of the
\* event row, except the start of a new tournament, which creates the row.
C27_EntryDeadlineFixed ==
    [][(event'.state = "entry" /\ event'.round_index = 0 /\ match' = {} /\ entrant' = {})
          \/ event'.entry_end_utc = event.entry_end_utc]_vars

\* A step that starts a new tournament (the one step that may take
\* round_index back to 0)
Restarted ==
    event'.state = "entry" /\ event'.round_index = 0 /\ match' = {} /\ entrant' = {}

\* C28 (round index): round_index is 0 while the state is 'entry'; it becomes
\* 1 in the step that creates the paired rows of round 1; afterwards it
\* changes only by +1 and only in a step that creates rows of the new round;
\* and every match row has a round_index between 1 and the event's.
C28_RoundIndex ==
    [][/\ event.state = "entry" => event.round_index = 0
       /\ event'.state = "entry" => event'.round_index = 0
       /\ \A m \in match' : 1 <= m.round_index /\ m.round_index <= event'.round_index
       /\ (event'.round_index # event.round_index /\ ~Restarted) =>
             /\ event'.round_index = event.round_index + 1
             /\ \E m \in match' : /\ m.round_index = event'.round_index
                                  /\ ~\E x \in match : x.id = m.id
       /\ (Paired1(match') \ Paired1(match) # {}) =>
             event.round_index = 0 /\ event'.round_index = 1]_vars

\* C29 (entry submission): a step that creates an entrant row or changes the
\* member or the name of one is taken while the tournament's state is 'entry'
\* and its entry deadline has not passed; at any other moment a submission
\* leaves the entrant table as it is.
C29_SubmitOnlyWhileOpen ==
    [][/\ Joined(entrant') # Joined(entrant) =>
             event.state = "entry" /\ now < event.entry_end_utc
       /\ \A u \in Users, name \in Names :
             (EntrantModal_on_submit(u, name)
                 /\ ~(event.state = "entry" /\ now < event.entry_end_utc)) =>
                 entrant' = entrant]_vars

\* Two members have joined while entries were open and the entry deadline
\* has passed since: a submission is rejected from here on.
C29_Witness ==
    /\ \E e \in entrant : e.id > 1
    /\ now >= EntrySec
    /\ event.state # "entry"

\* C30 (a reset wipes everything the tournament owns): the step that starts
\* a new tournament leaves no entrant row, no match row and no voter row.
C30_ResetWipesAll ==
    [][(cmds'["start"] # cmds["start"]) =>
          /\ entrant' = {}
          /\ match' = {}
          /\ voter' = {}]_vars

\* ------------------------------------------ failures of chat-platform calls
\* Whether an exception raised by the awaits at which a handler is suspended
\* is caught before it can skip the handler's next write.  "vpass": the
\* awaits of the entry pass (message edit, announcement and ticket lock are
\* in try/except; post_round_matches can raise, which ends the entry pass's
\* try block, and the voting-end pass is a try block of its own).  "loop"
\* and "after": the message edit and the posts of a resolved row are in
\* try/except, cleanup_bump_panels swallows its own failures.  "advance":
\* set_permissions is in try/except.  "close": the notice is in try/except.
\* The sends that are not caught follow the last write of their handler.
Guarded_Nothing(pc) == FALSE

Guarded(pc) == pc \in {"vpass", "loop", "after", "advance", "close"}

\* The handler's next step when its awaits return
Resume(p) ==
    \/ ResolveNext(p)
    \/ ExtendRound(p)
    \/ AdvanceCollect(p)
    \/ AdvanceDecide(p)
    \/ AdvanceClose(p)
    \/ (p = "sched" /\ SchedulerVotingPass)

\* The exception leaves the handler
Abort(p) ==
    /\ res' = [res EXCEPT ![p] = IdleRes]
    /\ UNCHANGED <<now, event, entrant, match, match_seq, voter, champions, cmds>>
    /\ UNCHANGED multi

\* A chat-platform call at which the handler of p is suspended raises
ExternalFailure(p) ==
    /\ res[p].pc # "idle"
    /\ IF Guarded(res[p].pc) THEN Resume(p) ELSE Abort(p)

NextFail ==
    \/ Vote
    \/ scheduler
    \/ SchedulerVotingPass
    \/ stylo_finish_round_now("fin")
    \/ ResolveNext("fin")
    \/ ExtendRound("fin")
    \/ AdvanceCollect("fin")
    \/ AdvanceDecide("fin")
    \/ ExternalFailure("sched")
    \/ ExternalFailure("fin")

SpecFail == Init /\ [][NextFail]_vars

Guilds == 1..MaxGuilds

single == <<now, event, entrant, match, match_seq, voter, res, champions, cmds>>

\* cur.fetchall() of SELECT * FROM event WHERE state=?
EventRows(state) ==
    SelectSeq([g \in Guilds |-> [guild_id |-> g, state |-> events[g].state,
                                 entry_end_utc |-> events[g].entry_end_utc]],
              LAMBDA r : r.state = state)

\* now is read and the entry pass selects the events in 'entry'
TickStart ==
    /\ tick.pc = "idle"
    /\ tick' = [pc |-> "entry", now |-> now, todo |-> EventRows("entry"),
                raised |-> FALSE]
    /\ UNCHANGED events
    /\ UNCHANGED single

\* One iteration of "for ev in cur.fetchall()" of the entry pass.  An event
\* that is due is closed (not enough entrants; the notice is in try/except)
\* or gets its round 1 and goes to 'voting'; after that commit
\* post_round_matches may raise, and the exception leaves the loop for the
\* except clause that surrounds it.
EntryPass ==
    /\ tick.pc = "entry" /\ ~tick.raised /\ tick.todo # <<>>
    /\ LET ev == Head(tick.todo)
       IN  IF tick.now < ev.entry_end_utc
           THEN /\ tick' = [tick EXCEPT !.todo = Tail(@)]
                /\ UNCHANGED events
           ELSE \/ /\ events' = [events EXCEPT ![ev.guild_id].state = "closed"]
                   /\ tick' = [tick EXCEPT !.todo = Tail(@)]
                \/ /\ events' = [events EXCEPT ![ev.guild_id] =
                                    [state |-> "voting",
                                     entry_end_utc |-> tick.now + VoteSec]]
                   /\ \E raised \in BOOLEAN :
                         tick' = [tick EXCEPT !.todo = Tail(@), !.raised = raised]
    /\ UNCHANGED single

\* The entry pass is over, by the end of its list or by an exception; the
\* voting-end pass selects the events in 'voting'
EntryPassEnd ==
    /\ tick.pc = "entry" /\ (tick.raised \/ tick.todo = <<>>)
    /\ tick' = [pc |-> "voting", now |-> tick.now, todo |-> EventRows("voting"),
                raised |-> FALSE]
    /\ UNCHANGED events
    /\ UNCHANGED single

\* One iteration of "for ev in cur.fetchall()" of the voting-end pass.  A
\* round that is due is extended by a tie (every await up to there is in
\* try/except) or goes through advance_to_next_round, which writes the next
\* round, a special match or the closure and then sends without try/except.
VotingPass ==
    /\ tick.pc = "voting" /\ ~tick.raised /\ tick.todo # <<>>
    /\ LET ev == Head(tick.todo)
       IN  IF tick.now < ev.entry_end_utc
           THEN /\ tick' = [tick EXCEPT !.todo = Tail(@)]
                /\ UNCHANGED events
           ELSE \/ /\ events' = [events EXCEPT ![ev.guild_id].entry_end_utc =
                                                   tick.now + VoteSec]
                   /\ tick' = [tick EXCEPT !.todo = Tail(@)]
                \/ /\ \/ events' = [events EXCEPT ![ev.guild_id].entry_end_utc =
                                                      tick.now + VoteSec]
                      \/ events' = [events EXCEPT ![ev.guild_id].state = "closed"]
                   /\ \E raised \in BOOLEAN :
                         tick' = [tick EXCEPT !.todo = Tail(@), !.raised = raised]
    /\ UNCHANGED single

\* The voting-end pass is over, by the end of its list or by an exception
VotingPassEnd ==
    /\ tick.pc = "voting" /\ (tick.raised \/ tick.todo = <<>>)
    /\ tick' = IdleTick
    /\ UNCHANGED events
    /\ UNCHANGED single

InitGuilds ==
    /\ now = 0
    /\ event = [state |-> "none", entry_end_utc |-> 0, round_index |-> 0]
    /\ entrant = {}
    /\ match = {}
    /\ match_seq = 0
    /\ voter = {}
    /\ res = [p \in Procs |-> IdleRes]
    /\ champions = <<>>
    /\ cmds = Commands(0, 0, 0)
    /\ events \in [Guilds -> [state : {"entry", "voting", "closed"},
                              entry_end_utc : 0..1]]
    /\ tick = IdleTick

NextGuilds ==
    \/ TickStart
    \/ EntryPass
    \/ EntryPassEnd
    \/ VotingPass
    \/ VotingPassEnd
    \/ Tick

SpecGuilds == InitGuilds /\ [][NextGuilds]_vars

MatchView_vote_call(mid, uid, side, fails) ==
    LET outcome == VoteOutcome(mid, uid)
    IN  IF outcome # "accepted"
        THEN [reply |-> IF fails THEN "none" ELSE outcome, raised |-> FALSE,
              match |-> match, voter |-> voter]
        ELSE [reply |-> IF fails THEN "none" ELSE "accepted", raised |-> fails,
              match |-> {IF m.id # mid THEN m
                         ELSE IF side = "L" THEN [m EXCEPT !.left_votes = @ + 1]
                         ELSE [m EXCEPT !.right_votes = @ + 1] : m \in match},
              voter |-> voter \cup {[match_id |-> mid, user_id |-> uid, side |-> side]}]

\* The ids a button can carry: the rows there are and one there is not
MatchIds == {m.id : m \in match} \cup {match_seq + 1}

\* A press that is refused is answered with its reason and changes no row
RefusalsKeepRows ==
    \A mid \in MatchIds, uid \in Voters, side \in Sides :
        LET r == MatchView_vote_call(mid, uid, side, FALSE)
        IN  r.reply # "accepted" =>
                /\ r.match = match /\ r.voter = voter
                /\ (r.reply = "not_found") = (~\E m \in match : m.id = mid)
                /\ (r.reply = "ended") =
                       (\E m \in match : m.id = mid /\ now >= m.end_utc)
                /\ (r.reply = "already_voted") =
                       (/\ \E m \in match : m.id = mid /\ now < m.end_utc
                        /\ HasVoted(mid, uid))

\* C31 (rejected votes): a press that is refused (unknown match, deadline
\* passed, duplicate voter) is answered with its reason and leaves the
\* tallies and the voter rows as they are, and no exception leaves
\* MatchView._vote, whether its calls to the chat platform succeed or raise.
C31_VoteRejection ==
    /\ RefusalsKeepRows
    /\ \A mid \in MatchIds, uid \in Voters, side \in Sides, fails \in BOOLEAN :
          ~MatchView_vote_call(mid, uid, side, fails).raised

\* ------------------------------------------------ an upload during voting
\* The entry deadline is reached with LateEntrants - 1 or LateEntrants
\* entrants holding an image and one more entrant, the last id, holding none;
\* that one may upload an image once round 1 has been generated.
InitLate ==
    \E k \in (LateEntrants - 1)..LateEntrants :
        InitJoined(k + 1, 1..k, Commands(LateFinishes, 0, 0))

NextLate ==
    \/ Quiet /\ \E m \in match, side \in Sides : MatchView_vote(m.id, 1, side)
    \/ scheduler
    \/ SchedulerVotingPass
    \/ stylo_finish_round_now("fin")
    \/ ResolveNext("fin")
    \/ ExtendRound("fin")
    \/ AdvanceCollect("fin")
    \/ AdvanceDecide("fin")
    \/ (event.state # "entry" /\ \E e \in entrant : on_message(e))

SpecLate == InitLate /\ [][NextLate]_vars

\* The entrant who held no image when the entry deadline passed.
Late == Cardinality(entrant)

\* C32 (no late entrants): the entrant who had no image when round 1 was
\* generated is in no match, and the upload does not change who plays: each
\* entrant who was eligible, the unpaired one included, has played in round 1
\* by the time the tournament is in round 2 or closed.
C32_NoLateEntrants ==
    /\ \A m \in match : ~Plays(m, Late)
    /\ (event.round_index >= 2 \/ event.state = "closed") =>
          \A e \in 1..(Late - 1) :
              \E m \in match : m.round_index = 1 /\ Plays(m, e)

\* The genuine unpaired round-1 entrant is passed over: round 2 has begun
\* although an eligible entrant never played in round 1.
C32_Skipped ==
    ~(/\ event.round_index >= 2
      /\ \A m \in match : ~Plays(m, Late)
      /\ \E e \in 1..(Late - 1) : \A m \in match : ~Plays(m, e))
\* ------------------------------------------------ the odd winner's challenger
\* Resolver p is about to decide what follows a round that gave an odd
\* number of winners, more than one.
OddAdvance(p) ==
    /\ res[p].pc = "advance"
    /\ Len(res[p].winners) > 1
    /\ Len(res[p].winners) % 2 = 1

\* The special matches that p's step inserts.
Challenges(p) == {m \in match' \ match : m.wild /\ res'[p] # res[p]}

stylo_set_round_time_left(minutes) ==
    /\ event.state = "voting"
    /\ event' = [event EXCEPT !.entry_end_utc = now + Max({minutes, 1})]
    /\ UNCHANGED <<now, entrant, match, match_seq, voter, res, champions, cmds>>
    /\ UNCHANGED multi

\* Entries are open until EntrySec; the scheduler alone moves the tournament,
\* voter 1 votes, and an admin may change the round time.
InitTime ==
    /\ now = 0
    /\ event = [state |-> "entry", entry_end_utc |-> EntrySec, round_index |-> 0]
    /\ entrant = {[id |-> i, has_image |-> TRUE] : i \in 1..TimeEntrants}
    /\ match = {}
    /\ match_seq = 0
    /\ voter = {}
    /\ res = [p \in Procs |-> IdleRes]
    /\ champions = <<>>
    /\ cmds = Commands(0, 0, 0)
    /\ events = <<>>
    /\ tick = IdleTick

NextTime ==
    \/ \E m \in match, side \in Sides : MatchView_vote(m.id, 1, side)
    \/ scheduler
    \/ SchedulerVotingPass
    \/ ResolveNext("sched")
    \/ ExtendRound("sched")
    \/ AdvanceCollect("sched")
    \/ AdvanceDecide("sched")
    \/ \E minutes \in 0..MaxMinutes : stylo_set_round_time_left(minutes)
    \/ Tick

SpecTime == InitTime /\ [][NextTime]_vars

\* A step of the scheduler tick that leaves Entry, decides or reopens a
\* match, creates a match, changes the round or closes the tournament.
SchedulerTransition ==
    /\ res'["sched"] # res["sched"]
    /\ \/ match' # match
       \/ event'.state # event.state
       \/ event'.round_index # event.round_index

\* C34 (no transition before its deadline): whenever a scheduler tick moves
\* the tournament out of Entry, decides or reopens a match, creates a match
\* or closes the tournament, now has reached the persisted deadline.
C34_NoEarlyTransition ==
    [][SchedulerTransition => now >= event.entry_end_utc]_vars
\* C39 (votes stay open as long as the round): while the tournament is in
\* Voting and no resolution is in progress, every undecided match of the
\* current round has the round's deadline as its own, also after
\* /stylo_set_round_time_left.
C39_VotesOpenAsLongAsRound ==
    (event.state = "voting" /\ Quiet) =>
        \A m \in RoundRows(match, event.round_index) :
            m.winner_id = NULL => m.end_utc = event.entry_end_utc

\* A press on an undecided match of the current round is refused as ended
\* although the round is not yet due.
C39_RefusedBeforeDue ==
    ~(/\ event.state = "voting" /\ Quiet /\ now < event.entry_end_utc
      /\ \E m \in RoundRows(match, event.round_index) :
            /\ m.winner_id = NULL
            /\ VoteOutcome(m.id, 1) = "ended")
\* C35 (tally consistency): for every match, left_votes is the number of
\* voter rows of the match with side 'L' and right_votes the number with
\* side 'R', in every state between two steps.
C35_TallyConsistency ==
    \A m \in match :
        /\ m.left_votes = Cardinality(VoterRows(m.id, "L"))
        /\ m.right_votes = Cardinality(VoterRows(m.id, "R"))

\* A tied match was reopened (its deadline lies after the first
\* window) and holds a vote of every voter.
C35_Witness ==
    \E m \in match :
        /\ m.winner_id = NULL
        /\ m.end_utc > VoteSec
        /\ m.left_votes + m.right_votes = MaxVoters
\* C36 (decided is final): a match that has a winner keeps that winner in
\* every later state; no step clears or changes winner_id of a decided row.
C36_DecidedIsFinal ==
    [][\A m \in match : m.winner_id # NULL =>
          \A x \in match' : x.id = m.id => x.winner_id = m.winner_id]_vars
\* C37 (undecided matches only in the current round): every match of a
\* round below the event's round_index has a winner, and when the tournament
\* is closed with a champion every match has a winner.
C37_UndecidedOnlyInCurrentRound ==
    /\ \A m \in match : m.round_index < event.round_index => m.winner_id # NULL
    /\ (event.state = "closed" /\ champions # <<>>) =>
          \A m \in match : m.winner_id # NULL
\* C38 (reset isolated from in-flight resolution): once the new tournament
\* has been started, and while its own entry deadline is not reached, no step
\* of a resolution that was suspended for the previous tournament changes the
\* event row (state, deadline, round_index) or creates a match.
C38_ResetIsolated ==
    [][(cmds["start"] = 0 /\ now < event.entry_end_utc /\ event.state = "entry") =>
          (event' = event /\ match' = match)]_vars

====
